---- MODULE Spec2Model ----
(***************************************************************************)
(* A model of cmem_plugin_shapes.plugin_shapes.ShapesPlugin: the SHACL     *)
(* shape synthesis (get_class_dict, create_shapes, get_name) and the       *)
(* reconciliation of the synthesized graph with the target shapes graph    *)
(* (execute, create_graph, add_to_graph, add_to_label, post_provenance).   *)
(*                                                                         *)
(* IRIs, titles and labels are strings.  An RDF triple is <<s, p, o>> with *)
(* s and p IRI strings and o one of <<"iri", i>>, <<"lit", text, tag>>     *)
(* (tag "" for a plain literal, a language or datatype otherwise) and      *)
(* <<"dt", n>>, an xsd:dateTime literal whose instant is the number n.     *)
(***************************************************************************)
EXTENDS Integers, Sequences, FiniteSets, TLC

(* ------------------------------ bounds -------------------------------- *)
\* largest data graph (number of triples) the synthesis is checked on
MaxTriples == 3
\* latest instant the wall clock reaches
MaxTime == 2
\* number of execute calls in one behaviour
MaxRuns == 2
MaxPeers == 1

(* ----------------------------- vocabulary ----------------------------- *)
RDF_type == "http://www.w3.org/1999/02/22-rdf-syntax-ns#type"
RDFS_label == "http://www.w3.org/2000/01/rdf-schema#label"
RDFS_comment == "http://www.w3.org/2000/01/rdf-schema#comment"
DCTERMS_source == "http://purl.org/dc/terms/source"
DCTERMS_created == "http://purl.org/dc/terms/created"
DCTERMS_modified == "http://purl.org/dc/terms/modified"
DCTERMS_creator == "http://purl.org/dc/terms/creator"
OWL_imports == "http://www.w3.org/2002/07/owl#imports"
SH_NodeShape == "http://www.w3.org/ns/shacl#NodeShape"
SH_PropertyShape == "http://www.w3.org/ns/shacl#PropertyShape"
SH_targetClass == "http://www.w3.org/ns/shacl#targetClass"
SH_name == "http://www.w3.org/ns/shacl#name"
SH_path == "http://www.w3.org/ns/shacl#path"
SH_nodeKind == "http://www.w3.org/ns/shacl#nodeKind"
SH_Literal == "http://www.w3.org/ns/shacl#Literal"
SH_IRI == "http://www.w3.org/ns/shacl#IRI"
SH_property == "http://www.w3.org/ns/shacl#property"
SHUI == "https://vocab.eccenca.com/shui/"
SHUI_ShapeCatalog == SHUI \o "ShapeCatalog"
SHUI_showAlways == SHUI \o "showAlways"
SHUI_inversePath == SHUI \o "inversePath"
CATALOG == "https://vocab.eccenca.com/shacl/"
DI_CustomTask == "https://vocab.eccenca.com/di/CustomTask"
TRUE_SET == {"yes", "true", "t", "y", "1"}
FALSE_SET == {"no", "false", "f", "n", "0"}
LABEL == "Generate SHACL shapes from data"
\* the text create_shapes puts before the name of an inverse property shape
\* (U+2190 and a space in the source)
ARROW == "<- "
LABEL_MARKER == "Shapes for: "

IriTerm(i) == <<"iri", i>>
PlainLiteral(text) == <<"lit", text, "">>
LangLiteral(text, lang) == <<"lit", text, lang>>
BooleanTrue == <<"lit", "true", "http://www.w3.org/2001/XMLSchema#boolean">>
DateTime(n) == <<"dt", n>>

(* ------------------------ the graphs of the store --------------------- *)
DATA == "http://ex.org/data"
SHAPES == "http://ex.org/shapes"
\* another data graph, which earlier runs may have listed in the label
OTHER_DATA == "http://ex.org/other"
GraphIris == {DATA, SHAPES, CATALOG}

(* ------------------------------- state -------------------------------- *)
VARIABLES
    store,              \* the triple store: graph IRI -> set of triples
    row_order,          \* the order in which the store lists query solutions
    prov_known,         \* the project graph declares the task's plugin type
    peers,              \* the add runs of other instances on the same store
    clock,              \* the wall clock
    data_graph_iri,    \* the instance's fields, as __init__ sets them
    shapes_graph_iri,
    ignore_properties,
    existing_graph,
    import_shapes,
    prefix_cc,
    replace,
    plugin_provenance,
    run_label,          \* the explicit label override, "" when there is none
    shapes_count,
    shapes_graph,       \* self.shapes_graph, set by execute
    graphs_list,        \* self.graphs_list, set by execute on the add path
    report,             \* entity_count of the last execution report
    pc,                 \* where the instance is: no instance, ready, or the
                        \* next step of the execute call in progress
    now,                \* the timestamp the run in progress has taken
    error,              \* the exception that ended __init__ or execute
    runs,               \* execute calls started
    pre,                \* the target graph when the current execute began
    writes,             \* the store writes the current execute has issued
    prev,               \* the parameters of the execute call before the
                        \* current one, when it completed (NoPrev otherwise)
    init_args           \* the parameters of the last __init__ call

vars == <<store, row_order, prov_known, clock, data_graph_iri, shapes_graph_iri,
          ignore_properties, existing_graph, import_shapes, prefix_cc, replace,
          plugin_provenance, shapes_count, shapes_graph, graphs_list, report,
          pc, now, error, runs, pre, writes, prev, peers, run_label, init_args>>

\* the environment, which no step of the instance changes
env_vars == <<row_order, prov_known, peers>>

field_vars == <<data_graph_iri, shapes_graph_iri, ignore_properties, existing_graph,
                import_shapes, prefix_cc, replace, plugin_provenance, run_label>>

(* ------------------------------ strings ------------------------------- *)
StartsWith(s, p) == Len(s) >= Len(p) /\ SubSeq(s, 1, Len(p)) = p

EndsWith(s, p) == Len(s) >= Len(p) /\ SubSeq(s, Len(s) - Len(p) + 1, Len(s)) = p

\* the least i >= from with s[i..] starting with sep, 0 when there is none
RECURSIVE Find(_, _, _)
Find(s, sep, from) ==
    IF from + Len(sep) - 1 > Len(s) THEN 0
    ELSE IF SubSeq(s, from, from + Len(sep) - 1) = sep THEN from
    ELSE Find(s, sep, from + 1)

\* the greatest i with s[i..] starting with sep, 0 when there is none
RECURSIVE FindLast(_, _, _)
FindLast(s, sep, from) ==
    IF from < 1 THEN 0
    ELSE IF from + Len(sep) - 1 <= Len(s) /\ SubSeq(s, from, from + Len(sep) - 1) = sep
         THEN from
    ELSE FindLast(s, sep, from - 1)

\* str.split(sep): the list of the pieces of s between the occurrences of sep
RECURSIVE Split(_, _)
Split(s, sep) ==
    LET i == Find(s, sep, 1) IN
    IF i = 0 THEN <<s>>
    ELSE <<SubSeq(s, 1, i - 1)>> \o Split(SubSeq(s, i + Len(sep), Len(s)), sep)

\* str.split(sep, 1): at most one cut
Split1(s, sep) ==
    LET i == Find(s, sep, 1) IN
    IF i = 0 THEN <<s>>
    ELSE <<SubSeq(s, 1, i - 1), SubSeq(s, i + Len(sep), Len(s))>>

Range(seq) == {seq[i] : i \in 1..Len(seq)}

format_namespace(iri) ==
    IF EndsWith(iri, "/") \/ EndsWith(iri, "#") THEN iri ELSE iri \o "/"

\* validators.url on the strings of this model: an absolute http(s) URL with
\* a host and neither blanks nor angle brackets
validators_url(s) ==
    /\ \/ StartsWith(s, "http://") /\ Len(s) > 7
       \/ StartsWith(s, "https://") /\ Len(s) > 8
    /\ Find(s, " ", 1) = 0
    /\ Find(s, "<", 1) = 0
    /\ Find(s, ">", 1) = 0

\* str2bool: "True", "False", or "ValueError" for the exception
str2bool(value) ==
    IF value \in TRUE_SET THEN "True"
    ELSE IF value \in FALSE_SET THEN "False"
    ELSE "ValueError"

\* uuid5(NAMESPACE_URL, name): a hash of the name, equal names give equal
\* identifiers and (SHA-1 collisions aside) different names different ones
uuid5(name) == "uuid5{" \o name \o "}"

(* --------------------- the environment of a run ----------------------- *)
EX == "http://ex.org/"
RDF_NS == "http://www.w3.org/1999/02/22-rdf-syntax-ns#"
Person == EX \o "Person"
Org == EX \o "Org"
Thing == EX \o "Thing"
knows == EX \o "knows"
knowsinverse == EX \o "knowsinverse"
ResA == EX \o "a"
ResB == EX \o "b"

\* the project's prefix declarations, the bundled prefix_cc.json and the
\* document at PREFIX_CC, each as the items (prefix, namespace) of the dict
PrefixesProject == << <<"ex", EX>>, <<"rdf", RDF_NS>> >>
PrefixCcFile == << <<"exo", EX>> >>
PrefixCcRemote == << <<"exo", EX>>, <<"exr", EX>> >>

\* the answer of the title service, {"title": ..., "fromIri": ...}
TitleService(iri) ==
    IF iri = Person THEN [title |-> "ex:Person", fromIri |-> TRUE]
    ELSE IF iri = Org THEN [title |-> "Organisation", fromIri |-> FALSE]
    ELSE IF iri = Thing THEN [title |-> "Thing", fromIri |-> TRUE]
    ELSE IF iri = knows THEN [title |-> "exo:knows", fromIri |-> TRUE]
    ELSE IF iri = knowsinverse THEN [title |-> "ex_knowsinverse", fromIri |-> TRUE]
    ELSE IF iri = RDF_type THEN [title |-> "rdf:type", fromIri |-> TRUE]
    ELSE [title |-> iri, fromIri |-> TRUE]

(* ------------------------- Prefix Resolver ---------------------------- *)
\* format_prefixes: a dict namespace -> list of "prefix:", as a function
RECURSIVE format_prefixes(_, _)
format_prefixes(prefixes, formatted_prefixes) ==
    IF prefixes = <<>> THEN formatted_prefixes
    ELSE LET prefix == Head(prefixes)[1]
             namespace == Head(prefixes)[2]
             old == IF namespace \in DOMAIN formatted_prefixes
                    THEN formatted_prefixes[namespace] ELSE <<>>
             new == [n \in DOMAIN formatted_prefixes \cup {namespace} |->
                        IF n = namespace THEN Append(old, prefix \o ":")
                        ELSE formatted_prefixes[n]]
         IN format_prefixes(Tail(prefixes), new)

\* get_prefixes; fetched says whether urlopen(PREFIX_CC) answered
get_prefixes(use_cc, fetched) ==
    LET prefixes == format_prefixes(PrefixesProject, <<>>)
        prefixes_cc_1 == IF use_cc /\ fetched THEN PrefixCcRemote ELSE <<>>
        prefixes_cc == IF prefixes_cc_1 = <<>> \/ ~use_cc
                       THEN PrefixCcFile ELSE prefixes_cc_1
    IN IF prefixes_cc # <<>> THEN format_prefixes(prefixes_cc, prefixes)
       ELSE prefixes

(* --------------------------- Name Resolver ---------------------------- *)
\* rdflib's split_uri on the IRIs of this model: the namespace ends with the
\* last "/" or "#"; <<>> stands for the ValueError (no local name)
split_uri(iri) ==
    LET a == FindLast(iri, "/", Len(iri))
        b == FindLast(iri, "#", Len(iri))
        i == IF a > b THEN a ELSE b
    IN IF i = 0 \/ i = Len(iri) THEN <<>>
       ELSE <<SubSeq(iri, 1, i), SubSeq(iri, i + 1, Len(iri))>>

\* get_name that takes the first candidate for the prefix of the title
get_name_FirstPrefix(iri, prefixes_) ==
    LET title_json == TitleService(iri)
        title == title_json.title
        parts == split_uri(iri)
        Ok(n) == [error |-> "", name |-> n]
    IN IF parts = <<>> THEN [error |-> "ValueError", name |-> ""]
       ELSE IF parts[1] \in DOMAIN prefixes_ THEN
           LET pfs == prefixes_[parts[1]]
           IN IF title_json.fromIri THEN
                  IF \E i \in 1..Len(pfs) : StartsWith(title, pfs[i]) THEN
                      Ok(SubSeq(title, Len(pfs[1]) + 1, Len(title))
                            \o " (" \o pfs[1] \o ")")
                  ELSE IF Len(Split1(title, "_")) < 2
                       THEN [error |-> "IndexError: " \o title, name |-> title]
                       ELSE Ok(Split1(title, "_")[2] \o " (" \o pfs[1] \o ")")
              ELSE Ok(title \o " (" \o pfs[1] \o ")")
       ELSE Ok(title)

\* get_name: [error |-> "" and the name, or the exception raised (the
\* IndexError's message is the title; the candidates after it are left out)]
get_name(iri, prefixes_) ==
    LET title_json == TitleService(iri)
        title == title_json.title
        parts == split_uri(iri)
        Ok(n) == [error |-> "", name |-> n]
    IN IF parts = <<>> THEN [error |-> "ValueError", name |-> ""]
       ELSE IF parts[1] \in DOMAIN prefixes_ THEN
           LET pfs == prefixes_[parts[1]]
           IN IF title_json.fromIri THEN
                  IF \E i \in 1..Len(pfs) : StartsWith(title, pfs[i]) THEN
                      LET prefix == IF Len(pfs) > 1
                                    THEN Split1(title, ":")[1] \o ":" ELSE pfs[1]
                      IN Ok(SubSeq(title, Len(prefix) + 1, Len(title))
                            \o " (" \o prefix \o ")")
                  ELSE IF Len(Split1(title, "_")) < 2
                       THEN [error |-> "IndexError: " \o title, name |-> title]
                       ELSE Ok(Split1(title, "_")[2] \o " (" \o pfs[1] \o ")")
              ELSE Ok(title \o " (" \o pfs[1] \o ")")
       ELSE Ok(title)

(* -------------------------- Schema Extractor -------------------------- *)
\* re.match(r"^[a-z]+$", name)
IsLowerAlpha(name) ==
    /\ Len(name) > 0
    /\ \A i \in 1..Len(name) : SubSeq(name, i, i) \in
         {"a", "b", "c", "d", "e", "f", "g", "h", "i", "j", "k", "l", "m",
          "n", "o", "p", "q", "r", "s", "t", "u", "v", "w", "x", "y", "z"}

\* iri_list_to_filter: <<>> stands for the empty string (no FILTER), a
\* one-element tuple for a ValueError, <<name, filter_, iris>> for
\* FILTER (?name filter_ (<iri1>, <iri2>, ...))
iri_list_to_filter(iris, name, filter_) ==
    IF filter_ \notin {"NOT IN", "IN"} THEN <<"ValueError">>
    ELSE IF ~IsLowerAlpha(name) THEN <<"ValueError">>
    ELSE IF iris = <<>> THEN <<>>
    ELSE <<name, filter_, iris>>

\* the store's evaluation of the FILTER on one solution
FilterHolds(flt, solution) ==
    IF flt = <<>> THEN TRUE
    ELSE IF flt[1] \notin DOMAIN solution THEN FALSE
    ELSE IF flt[2] = "NOT IN" THEN solution[flt[1]] \notin Range(flt[3])
    ELSE solution[flt[1]] \in Range(flt[3])

BoolText(b) == IF b THEN "true" ELSE "false"

\* the first branch that never lists rdf:type as a property
ForwardBranch_WithoutType(graph, flt) ==
    {[class |-> t[3][2], property |-> u[2],
      data |-> BoolText(u[3][1] # "iri"), inverse |-> "false"] :
        <<t, u>> \in {<<t, u>> \in graph \X graph :
            /\ t[2] = RDF_type /\ t[3][1] = "iri" /\ u[1] = t[1]
            /\ u[2] # RDF_type
            /\ FilterHolds(flt, [class |-> t[3][2], property |-> u[2]])}}

\* first branch of the UNION: ?subject a ?class . ?subject ?property ?object
ForwardBranch(graph, flt) ==
    {[class |-> t[3][2], property |-> u[2],
      data |-> BoolText(u[3][1] # "iri"), inverse |-> "false"] :
        <<t, u>> \in {<<t, u>> \in graph \X graph :
            /\ t[2] = RDF_type /\ t[3][1] = "iri" /\ u[1] = t[1]
            /\ FilterHolds(flt, [class |-> t[3][2], property |-> u[2]])}}

\* the second branch with the FILTER left out of it
InverseBranch_Unfiltered(graph, flt) ==
    {[class |-> t[3][2], property |-> u[2], data |-> "false", inverse |-> "true"] :
        <<t, u>> \in {<<t, u>> \in graph \X graph :
            t[2] = RDF_type /\ t[3][1] = "iri" /\ u[3] = IriTerm(t[1])}}

\* second branch: ?object a ?class . ?subject ?property ?object
InverseBranch(graph, flt) ==
    {[class |-> t[3][2], property |-> u[2], data |-> "false", inverse |-> "true"] :
        <<t, u>> \in {<<t, u>> \in graph \X graph :
            /\ t[2] = RDF_type /\ t[3][1] = "iri" /\ u[3] = IriTerm(t[1])
            /\ FilterHolds(flt, [class |-> t[3][2], property |-> u[2]])}}

\* SELECT DISTINCT ?class ?property ?data ?inverse: the set of solutions
QuerySolutions(graph, ignore) ==
    LET flt == iri_list_to_filter(ignore, "property", "NOT IN")
    IN ForwardBranch(graph, flt) \cup InverseBranch(graph, flt)

\* the rows as the store returns them: the solutions in the store's order
\* (order lists every solution of the unfiltered query once)
RECURSIVE SelectRows(_, _)
SelectRows(order, solutions) ==
    IF order = <<>> THEN <<>>
    ELSE IF Head(order) \in solutions
         THEN <<Head(order)>> \o SelectRows(Tail(order), solutions)
         ELSE SelectRows(Tail(order), solutions)

\* the loop of get_class_dict: class_dict as the list of its items
\* <<class, list of observations>>, in insertion order
RECURSIVE GroupBindings(_, _)
GroupBindings(bindings, class_dict) ==
    IF bindings = <<>> THEN class_dict
    ELSE LET binding == Head(bindings)
             class_iri == binding.class
             obs == [property |-> binding.property,
                     data |-> str2bool(binding.data) = "True",
                     inverse |-> str2bool(binding.inverse) = "True"]
             known == \E i \in 1..Len(class_dict) : class_dict[i][1] = class_iri
             next == IF known
                     THEN [i \in 1..Len(class_dict) |->
                            IF class_dict[i][1] = class_iri
                            THEN <<class_iri, Append(class_dict[i][2], obs)>>
                            ELSE class_dict[i]]
                     ELSE Append(class_dict, <<class_iri, <<obs>> >>)
         IN GroupBindings(Tail(bindings), next)

get_class_dict(graph, order, ignore) ==
    GroupBindings(SelectRows(order, QuerySolutions(graph, ignore)), <<>>)

(* -------------------------- Shape Synthesizer ------------------------- *)
init_shapes_graph ==
    { <<shapes_graph_iri, RDF_type, IriTerm(SHUI_ShapeCatalog)>>,
      <<shapes_graph_iri, DCTERMS_source, IriTerm(data_graph_iri)>> }

\* the name hashed for a property shape
PropName(prop) == prop.property \o (IF prop.inverse THEN "inverse" ELSE "")

\* a node shape identifier drawn afresh by every execute call
NodeShapeUri_PerRun(cls) ==
    format_namespace(shapes_graph_iri) \o uuid5(cls)
        \o (IF runs > 1 THEN "-again" ELSE "")

NodeShapeUri(cls) == format_namespace(shapes_graph_iri) \o uuid5(cls)

PropertyShapeUri(prop) == format_namespace(shapes_graph_iri) \o uuid5(PropName(prop))

\* the inner loop body without the arrow before the name of an inverse shape
PropertyStep_NoArrow(st, node_shape_uri, prop, prefixes_) ==
    LET prop_uuid == uuid5(PropName(prop))
        property_shape_uri == PropertyShapeUri(prop)
        link == <<node_shape_uri, SH_property, IriTerm(property_shape_uri)>>
    IN IF prop_uuid \in st.prop_uuids
       THEN [st EXCEPT !.graph = @ \cup {link}]
       ELSE LET res == get_name(prop.property, prefixes_)
                name == res.name
            IN IF res.error # ""
               THEN [st EXCEPT !.count = @ + 1, !.error = res.error]
               ELSE [st EXCEPT
                       !.count = @ + 1,
                       !.graph = @ \cup
                         { <<property_shape_uri, RDF_type, IriTerm(SH_PropertyShape)>>,
                           <<property_shape_uri, SH_path, IriTerm(prop.property)>>,
                           <<property_shape_uri, SH_nodeKind,
                             IriTerm(IF prop.data THEN SH_Literal ELSE SH_IRI)>>,
                           <<property_shape_uri, SHUI_showAlways, BooleanTrue>>,
                           <<property_shape_uri, SH_name, LangLiteral(name, "en")>>,
                           <<property_shape_uri, RDFS_label, LangLiteral(name, "en")>>,
                           link }
                         \cup (IF prop.inverse
                               THEN {<<property_shape_uri, SHUI_inversePath, BooleanTrue>>}
                               ELSE {}),
                       !.prop_uuids = @ \cup {prop_uuid}]

\* the inner loop body that sets the node kind for every observation, seen or not
PropertyStep_KindAlways(st, node_shape_uri, prop, prefixes_) ==
    LET prop_uuid == uuid5(PropName(prop))
        property_shape_uri == PropertyShapeUri(prop)
        link == <<node_shape_uri, SH_property, IriTerm(property_shape_uri)>>
    IN IF prop_uuid \in st.prop_uuids
       THEN [st EXCEPT !.graph = @ \cup
               {link, <<property_shape_uri, SH_nodeKind,
                        IriTerm(IF prop.data THEN SH_Literal ELSE SH_IRI)>>}]
       ELSE LET res == get_name(prop.property, prefixes_)
                name == IF prop.inverse THEN ARROW \o res.name ELSE res.name
            IN IF res.error # ""
               THEN [st EXCEPT !.count = @ + 1, !.error = res.error]
               ELSE [st EXCEPT
                       !.count = @ + 1,
                       !.graph = @ \cup
                         { <<property_shape_uri, RDF_type, IriTerm(SH_PropertyShape)>>,
                           <<property_shape_uri, SH_path, IriTerm(prop.property)>>,
                           <<property_shape_uri, SH_nodeKind,
                             IriTerm(IF prop.data THEN SH_Literal ELSE SH_IRI)>>,
                           <<property_shape_uri, SHUI_showAlways, BooleanTrue>>,
                           <<property_shape_uri, SH_name, LangLiteral(name, "en")>>,
                           <<property_shape_uri, RDFS_label, LangLiteral(name, "en")>>,
                           link }
                         \cup (IF prop.inverse
                               THEN {<<property_shape_uri, SHUI_inversePath, BooleanTrue>>}
                               ELSE {}),
                       !.prop_uuids = @ \cup {prop_uuid}]

\* the body of the inner loop of create_shapes for one observation; st is
\* [graph, count, class_uuids, prop_uuids, error]
PropertyStep(st, node_shape_uri, prop, prefixes_) ==
    LET prop_uuid == uuid5(PropName(prop))
        property_shape_uri == PropertyShapeUri(prop)
        link == <<node_shape_uri, SH_property, IriTerm(property_shape_uri)>>
    IN IF prop_uuid \in st.prop_uuids
       THEN [st EXCEPT !.graph = @ \cup {link}]
       ELSE LET res == get_name(prop.property, prefixes_)
                name == IF prop.inverse THEN ARROW \o res.name ELSE res.name
            IN IF res.error # ""
               THEN [st EXCEPT !.count = @ + 1, !.error = res.error]
               ELSE [st EXCEPT
                       !.count = @ + 1,
                       !.graph = @ \cup
                         { <<property_shape_uri, RDF_type, IriTerm(SH_PropertyShape)>>,
                           <<property_shape_uri, SH_path, IriTerm(prop.property)>>,
                           <<property_shape_uri, SH_nodeKind,
                             IriTerm(IF prop.data THEN SH_Literal ELSE SH_IRI)>>,
                           <<property_shape_uri, SHUI_showAlways, BooleanTrue>>,
                           <<property_shape_uri, SH_name, LangLiteral(name, "en")>>,
                           <<property_shape_uri, RDFS_label, LangLiteral(name, "en")>>,
                           link }
                         \cup (IF prop.inverse
                               THEN {<<property_shape_uri, SHUI_inversePath, BooleanTrue>>}
                               ELSE {}),
                       !.prop_uuids = @ \cup {prop_uuid}]

RECURSIVE PropertyLoop(_, _, _, _)
PropertyLoop(st, node_shape_uri, properties, prefixes_) ==
    IF properties = <<>> \/ st.error # "" THEN st
    ELSE PropertyLoop(PropertyStep(st, node_shape_uri, Head(properties), prefixes_),
                      node_shape_uri, Tail(properties), prefixes_)

\* the body of the outer loop up to the inner loop
ClassStep(st, cls, prefixes_) ==
    LET class_uuid == uuid5(cls)
        node_shape_uri == NodeShapeUri(cls)
    IN IF class_uuid \in st.class_uuids THEN st
       ELSE LET res == get_name(cls, prefixes_)
            IN IF res.error # ""
               THEN [st EXCEPT !.count = @ + 1,
                       !.graph = @ \cup
                         { <<node_shape_uri, RDF_type, IriTerm(SH_NodeShape)>>,
                           <<node_shape_uri, SH_targetClass, IriTerm(cls)>> },
                       !.error = res.error]
               ELSE [st EXCEPT
                       !.count = @ + 1,
                       !.graph = @ \cup
                         { <<node_shape_uri, RDF_type, IriTerm(SH_NodeShape)>>,
                           <<node_shape_uri, SH_targetClass, IriTerm(cls)>>,
                           <<node_shape_uri, SH_name, LangLiteral(res.name, "en")>>,
                           <<node_shape_uri, RDFS_label, LangLiteral(res.name, "en")>> },
                       !.class_uuids = @ \cup {class_uuid}]

RECURSIVE ClassLoop(_, _, _)
ClassLoop(st, class_dict, prefixes_) ==
    IF class_dict = <<>> \/ st.error # "" THEN st
    ELSE LET cls == Head(class_dict)[1]
             properties == Head(class_dict)[2]
             st1 == ClassStep(st, cls, prefixes_)
         IN ClassLoop(PropertyLoop(st1, NodeShapeUri(cls), properties, prefixes_),
                      Tail(class_dict), prefixes_)

\* create_shapes on the instance's shapes_graph and shapes_count
create_shapes(graph0, count0, class_dict, prefixes_) ==
    ClassLoop([graph |-> graph0, count |-> count0, class_uuids |-> {},
               prop_uuids |-> {}, error |-> ""], class_dict, prefixes_)

(* ------------------------------ the store ----------------------------- *)
\* the rdfs:label texts of a graph's own resource, as the graph list's
\* metadata may report them
LabelTexts(st, g) == {t[3][2] : t \in {u \in st[g] : u[1] = g /\ u[2] = RDFS_label}}

\* get_graphs_list: the graphs that exist (hold a triple), each with its
\* metadata; label is <<>> when the metadata has no label, <<title>> otherwise.
\* The set of the lists the store may answer with (one label is reported).
get_graphs_list(st) ==
    LET existing == {g \in DOMAIN st : st[g] # {}}
        titles(g) == IF LabelTexts(st, g) = {} THEN {<<>>}
                     ELSE {<<l>> : l \in LabelTexts(st, g)}
    IN {{[iri |-> g, label |-> f[g]] : g \in existing} :
          f \in {h \in [existing -> UNION {titles(g) : g \in existing}] :
                   \A g \in existing : h[g] \in titles(g)}}

\* post_streamed that always POSTs, whatever the replace flag
post_streamed_append(st, g, data, replace_) == [st EXCEPT ![g] = @ \cup data]

\* post_streamed(graph, data, replace=...): PUT when replace, POST otherwise
post_streamed(st, g, data, replace_) ==
    [st EXCEPT ![g] = IF replace_ THEN data ELSE @ \cup data]

\* INSERT DATA { GRAPH <g> { triples } }
insert_data(st, g, triples) == [st EXCEPT ![g] = @ \cup triples]

\* DELETE DATA { GRAPH <g> { triples } }
delete_data(st, g, triples) == [st EXCEPT ![g] = @ \ triples]

ModifiedTriples(triples, g) == {t \in triples : t[1] = g /\ t[2] = DCTERMS_modified}

CreatedTriples(triples, g) == {t \in triples : t[1] = g /\ t[2] = DCTERMS_created}

\* query_remove_modified without the FILTER on the age of the value
query_remove_modified_any(st, g, now_) ==
    [st EXCEPT ![g] = @ \ ModifiedTriples(@, g)]

\* query_remove_modified: delete the modified values older than now
query_remove_modified(st, g, now_) ==
    [st EXCEPT ![g] = @ \ {t \in ModifiedTriples(@, g) :
                              t[3][1] = "dt" /\ t[3][2] < now_}]

\* query_add_modified that inserts now whether or not a value is there
query_add_modified_always(st, g, now_) ==
    IF st[g] # {}
    THEN [st EXCEPT ![g] = @ \cup {<<g, DCTERMS_modified, DateTime(now_)>>}]
    ELSE st

\* query_add_modified: insert now as modified value when there is none
query_add_modified(st, g, now_) ==
    IF st[g] # {} /\ ModifiedTriples(st[g], g) = {}
    THEN [st EXCEPT ![g] = @ \cup {<<g, DCTERMS_modified, DateTime(now_)>>}]
    ELSE st

(* ------------------------- Catalog Reconciler ------------------------- *)
\* create_label on the in-memory graph
create_label(graph, label) ==
    graph \cup {<<shapes_graph_iri, RDFS_label,
                  PlainLiteral(IF label = "" THEN LABEL_MARKER \o data_graph_iri
                               ELSE label)>>}

backup_label(graph, label) ==
    graph \cup {<<shapes_graph_iri, RDFS_comment,
                  PlainLiteral("Previous label: " \o label)>>}

\* remove_label: the DELETE DATA update
remove_label(st, label) ==
    delete_data(st, shapes_graph_iri,
                {<<shapes_graph_iri, RDFS_label, PlainLiteral(label)>>})

\* add_to_label that writes no label when the graph list reports none
add_to_label_NoDefault(graph, st, glist) ==
    LET shapes_graph_metadata == CHOOSE m \in glist : m.iri = shapes_graph_iri
    IN [graph |-> IF shapes_graph_metadata.label = <<>> THEN graph
                  ELSE create_label(graph, ""),
        store |-> st, removed |-> FALSE]

\* add_to_label: the in-memory graph and the store after it, and whether
\* remove_label was called
add_to_label(graph, st, glist) ==
    LET shapes_graph_metadata == CHOOSE m \in glist : m.iri = shapes_graph_iri
        Result(g, s, r) == [graph |-> g, store |-> s, removed |-> r]
    IN IF shapes_graph_metadata.label = <<>>
       THEN Result(create_label(graph, ""), st, FALSE)
       ELSE LET label == shapes_graph_metadata.label[1]
                pieces == Split(label, LABEL_MARKER)
                source_graphs == Split(pieces[Len(pieces)], ", ")
            IN IF label = "" THEN Result(create_label(graph, ""), st, FALSE)
               ELSE IF data_graph_iri \in Range(source_graphs)
                    THEN Result(graph, st, FALSE)
               ELSE IF {validators_url(x) : x \in Range(source_graphs)} # {TRUE}
                       \/ ~StartsWith(label, LABEL_MARKER)
                    THEN Result(create_label(backup_label(graph, label), ""),
                                remove_label(st, label), TRUE)
               ELSE Result(create_label(graph, label \o ", " \o data_graph_iri),
                           remove_label(st, label), TRUE)

\* the label conflict of the merge with the explicit label override: a
\* configured label wins outright (the catalog's labels are removed and the
\* configured label is written), otherwise add_to_label decides
add_to_label_override(graph, st, glist, label) ==
    IF label = "" THEN add_to_label(graph, st, glist)
    ELSE [graph |-> create_label(graph, label),
          store |-> delete_data(st, shapes_graph_iri,
                        {t \in st[shapes_graph_iri] :
                            t[1] = shapes_graph_iri /\ t[2] = RDFS_label}),
          removed |-> TRUE]

(* ------------------------ Provenance Annotator ------------------------ *)
PluginIri == "http://dataintegration.eccenca.com/proj/shapes_0123"
PluginType == "https://vocab.eccenca.com/di/functions/Plugin_shapes"
ParamExistingGraph == "https://vocab.eccenca.com/di/functions/param_shapes_existing_graph"
\* the values token_hex(8) is drawn from
Tokens == {"a1", "b2"}

\* new_plugin_iri of get_provenance
new_plugin_iri(token) ==
    LET i == FindLast(PluginIri, "_", Len(PluginIri))
    IN (IF i = 0 THEN "" ELSE SubSeq(PluginIri, 1, i - 1)) \o "_" \o token

\* the triples post_provenance inserts into the shapes graph
ProvenanceTriples(token) ==
    { <<shapes_graph_iri, DCTERMS_creator, IriTerm(new_plugin_iri(token))>>,
      <<new_plugin_iri(token), RDF_type, IriTerm(PluginType)>>,
      <<new_plugin_iri(token), RDF_type, IriTerm(DI_CustomTask)>>,
      <<new_plugin_iri(token), RDFS_label, PlainLiteral(LABEL \o " plugin")>>,
      <<new_plugin_iri(token), ParamExistingGraph, PlainLiteral(existing_graph)>> }

ImportTriple == <<CATALOG, OWL_imports, IriTerm(shapes_graph_iri)>>

(* ------------------------------ __init__ ------------------------------ *)
NoPrev == [eg |-> "", prov |-> FALSE, imp |-> FALSE]

\* init_args before the first __init__ call
NoArgs == [called |-> FALSE, dg |-> "", sg |-> "", eg |-> "", ign |-> ""]

\* no other instance runs on the store
NoPeers == <<>>

\* prev for an execute call or a new instance that follows the current state
PrevNext ==
    IF pc = "done"
    THEN [eg |-> existing_graph, prov |-> plugin_provenance, imp |-> import_shapes]
    ELSE IF pc = "ready" THEN prev ELSE NoPrev

\* the exception __init__ raises for the parameters, "" when it returns
init_error(dg, sg, eg, ign) ==
    IF ~validators_url(dg) THEN "Data graph IRI parameter is invalid."
    ELSE IF ~validators_url(sg) THEN "Shapes graph IRI parameter is invalid."
    ELSE IF \E x \in Range(Split(ign, "\n")) : ~validators_url(x)
         THEN "Ignored property IRI invalid"
    ELSE IF eg \notin {"stop", "replace", "add"}
         THEN "Handle existing output graph parameter is invalid"
    ELSE ""

\* ShapesPlugin(dg, sg, eg, imp, pcc, ign, prov)
Construct(dg, sg, eg, imp, pcc, ign, prov) ==
    /\ pc \in {"none", "ready", "done", "failed"}
    /\ runs < MaxRuns
    /\ error' = init_error(dg, sg, eg, ign)
    /\ init_args' = [called |-> TRUE, dg |-> dg, sg |-> sg, eg |-> eg, ign |-> ign]
    /\ IF init_error(dg, sg, eg, ign) = ""
       THEN /\ data_graph_iri' = dg
            /\ shapes_graph_iri' = sg
            /\ ignore_properties' = Split(ign, "\n")
            /\ existing_graph' = eg
            /\ import_shapes' = imp
            /\ prefix_cc' = pcc
            /\ replace' = (eg = "replace")
            /\ plugin_provenance' = prov
            /\ run_label' = ""
            /\ shapes_count' = 0
            /\ shapes_graph' = {}
            /\ graphs_list' = {}
            /\ pc' = "ready"
            /\ now' = 0
            /\ pre' = {}
            /\ writes' = {}
            /\ prev' = PrevNext
       ELSE UNCHANGED <<field_vars, shapes_count, shapes_graph, graphs_list, pc,
                        now, pre, writes, prev>>
    /\ UNCHANGED <<store, env_vars, clock, report, runs>>

\* the constructor with the optional explicit label override
ConstructLabelled(dg, sg, eg, imp, pcc, ign, prov, label) ==
    /\ pc \in {"none", "ready", "done", "failed"}
    /\ runs < MaxRuns
    /\ init_error(dg, sg, eg, ign) = ""
    /\ error' = ""
    /\ init_args' = [called |-> TRUE, dg |-> dg, sg |-> sg, eg |-> eg, ign |-> ign]
    /\ data_graph_iri' = dg
    /\ shapes_graph_iri' = sg
    /\ ignore_properties' = Split(ign, "\n")
    /\ existing_graph' = eg
    /\ import_shapes' = imp
    /\ prefix_cc' = pcc
    /\ replace' = (eg = "replace")
    /\ plugin_provenance' = prov
    /\ run_label' = label
    /\ shapes_count' = 0
    /\ shapes_graph' = {}
    /\ graphs_list' = {}
    /\ pc' = "ready"
    /\ now' = 0
    /\ pre' = {}
    /\ writes' = {}
    /\ prev' = PrevNext
    /\ UNCHANGED <<store, env_vars, clock, report, runs>>

(* ------------------------------- execute ------------------------------ *)
\* Execute without the stop policy's check of the graph list
Execute_IgnoresStop ==
    /\ pc \in {"ready", "done", "failed"}
    /\ runs < MaxRuns
    /\ runs' = runs + 1
    /\ report' = shapes_count
    /\ pre' = store[shapes_graph_iri]
    /\ writes' = {}
    /\ prev' = PrevNext
    /\ now' = 0
    /\ pc' = "create_shapes"
    /\ error' = ""
    /\ UNCHANGED <<store, env_vars, clock, field_vars, shapes_count, shapes_graph,
                   graphs_list, init_args>>

\* lines 586-591: the first report and the stop policy
Execute ==
    /\ pc \in {"ready", "done", "failed"}
    /\ runs < MaxRuns
    /\ runs' = runs + 1
    /\ report' = shapes_count
    /\ pre' = store[shapes_graph_iri]
    /\ writes' = {}
    /\ prev' = PrevNext
    /\ now' = 0
    /\ \E glist \in get_graphs_list(store) :
         IF existing_graph = "stop" /\ shapes_graph_iri \in {m.iri : m \in glist}
         THEN pc' = "failed" /\ error' = "Graph already exists."
         ELSE pc' = "create_shapes" /\ error' = ""
    /\ UNCHANGED <<store, env_vars, clock, field_vars, shapes_count, shapes_graph,
                   graphs_list, init_args>>

\* lines 593-596: get_prefixes, init_shapes_graph, create_shapes
CreateShapes ==
    /\ pc = "create_shapes"
    /\ \E fetched \in (IF prefix_cc THEN BOOLEAN ELSE {FALSE}) :
         LET st == create_shapes(init_shapes_graph, shapes_count,
                       get_class_dict(store[data_graph_iri], row_order,
                                      ignore_properties),
                       get_prefixes(prefix_cc, fetched))
         IN /\ shapes_graph' = st.graph
            /\ shapes_count' = st.count
            /\ error' = st.error
            /\ pc' = IF st.error # "" THEN "failed" ELSE "reconcile"
    /\ UNCHANGED <<prev, init_args, store, env_vars, clock, field_vars, graphs_list, report, now,
                   runs, pre, writes>>

\* Reconcile that takes the add policy to the merge without create_graph
\* when the target graph is missing
Reconcile_AddNeverCreates ==
    /\ pc = "reconcile"
    /\ IF existing_graph # "add"
       THEN pc' = "create_graph" /\ UNCHANGED graphs_list
       ELSE \E glist \in get_graphs_list(store) :
              /\ graphs_list' = glist
              /\ pc' = IF shapes_graph_iri \in {m.iri : m \in glist}
                       THEN "add_to_label" ELSE "insert_data"
    /\ UNCHANGED <<prev, init_args, store, env_vars, clock, field_vars, shapes_count, shapes_graph,
                   report, now, error, runs, pre, writes>>

\* lines 598-606: which of create_graph and add_to_graph runs
Reconcile ==
    /\ pc = "reconcile"
    /\ IF existing_graph # "add"
       THEN pc' = "create_graph" /\ UNCHANGED graphs_list
       ELSE \E glist \in get_graphs_list(store) :
              /\ graphs_list' = glist
              /\ pc' = IF shapes_graph_iri \in {m.iri : m \in glist}
                       THEN "add_to_label" ELSE "create_graph"
    /\ UNCHANGED <<prev, init_args, store, env_vars, clock, field_vars, shapes_count, shapes_graph,
                   report, now, error, runs, pre, writes>>

\* create_graph whose bulk write never replaces the graph
CreateGraph_NeverReplaces ==
    /\ pc = "create_graph"
    /\ shapes_graph' = create_label(shapes_graph, "")
    /\ store' = post_streamed(store, shapes_graph_iri, shapes_graph', FALSE)
    /\ writes' = writes \cup {"post_streamed"}
    /\ pc' = "add_created"
    /\ UNCHANGED <<prev, init_args, env_vars, clock, field_vars, shapes_count, graphs_list, report,
                   now, error, runs, pre>>

\* create_graph, lines 447-453: the label and the bulk write
CreateGraph ==
    /\ pc = "create_graph"
    /\ shapes_graph' = create_label(shapes_graph, "")
    /\ store' = post_streamed(store, shapes_graph_iri, shapes_graph', replace)
    /\ writes' = writes \cup {"post_streamed"}
    /\ pc' = "add_created"
    /\ UNCHANGED <<prev, init_args, env_vars, clock, field_vars, shapes_count, graphs_list, report,
                   now, error, runs, pre>>

\* create_graph, lines 454-464: the created timestamp
AddCreated ==
    /\ pc = "add_created"
    /\ \E t \in clock..MaxTime :
         /\ now' = t
         /\ clock' = t
         /\ store' = insert_data(store, shapes_graph_iri,
                                 {<<shapes_graph_iri, DCTERMS_created, DateTime(t)>>})
    /\ writes' = writes \cup {"created"}
    /\ pc' = "report"
    /\ UNCHANGED <<prev, init_args, env_vars, field_vars, shapes_count, shapes_graph, graphs_list,
                   report, error, runs, pre>>

\* add_to_graph, line 526: add_to_label
AddToLabel ==
    /\ pc = "add_to_label"
    /\ LET res == add_to_label(shapes_graph, store, graphs_list)
       IN /\ shapes_graph' = res.graph
          /\ store' = res.store
          /\ writes' = IF res.removed THEN writes \cup {"remove_label"} ELSE writes
    /\ pc' = "insert_data"
    /\ UNCHANGED <<prev, init_args, env_vars, clock, field_vars, shapes_count, graphs_list, report,
                   now, error, runs, pre>>

\* add_to_graph's label step with the explicit label override
AddToLabelOverride ==
    /\ pc = "add_to_label"
    /\ LET res == add_to_label_override(shapes_graph, store, graphs_list, run_label)
       IN /\ shapes_graph' = res.graph
          /\ store' = res.store
          /\ writes' = IF res.removed THEN writes \cup {"remove_label"} ELSE writes
    /\ pc' = "insert_data"
    /\ UNCHANGED <<prev, init_args, env_vars, clock, field_vars, shapes_count,
                   graphs_list, report, now, error, runs, pre>>

\* InsertData that writes the synthesized graph over the target graph
InsertData_Replaces ==
    /\ pc = "insert_data"
    /\ store' = [store EXCEPT ![shapes_graph_iri] = shapes_graph]
    /\ writes' = writes \cup {"insert_data"}
    /\ pc' = "remove_modified"
    /\ UNCHANGED <<prev, init_args, env_vars, clock, field_vars, shapes_count, shapes_graph,
                   graphs_list, report, now, error, runs, pre>>

\* add_to_graph, lines 527-533: INSERT DATA of the synthesized graph
InsertData ==
    /\ pc = "insert_data"
    /\ store' = insert_data(store, shapes_graph_iri, shapes_graph)
    /\ writes' = writes \cup {"insert_data"}
    /\ pc' = "remove_modified"
    /\ UNCHANGED <<prev, init_args, env_vars, clock, field_vars, shapes_count, shapes_graph,
                   graphs_list, report, now, error, runs, pre>>

\* add_to_graph, lines 535-554: the timestamp and query_remove_modified
RemoveModified ==
    /\ pc = "remove_modified"
    /\ \E t \in clock..MaxTime :
         /\ now' = t
         /\ clock' = t
         /\ store' = query_remove_modified(store, shapes_graph_iri, t)
    /\ writes' = writes \cup {"remove_modified"}
    /\ pc' = "add_modified"
    /\ UNCHANGED <<prev, init_args, env_vars, field_vars, shapes_count, shapes_graph, graphs_list,
                   report, error, runs, pre>>

\* add_to_graph, lines 556-572: query_add_modified
AddModified ==
    /\ pc = "add_modified"
    /\ store' = query_add_modified(store, shapes_graph_iri, now)
    /\ writes' = writes \cup {"add_modified"}
    /\ pc' = "report"
    /\ UNCHANGED <<prev, init_args, env_vars, clock, field_vars, shapes_count, shapes_graph,
                   graphs_list, report, now, error, runs, pre>>

(* ------------- add runs of other instances on the same store --------- *)
\* A peer is an execute call of another instance with the parameters of this
\* one, past create_shapes; its queries reach the store one at a time.
SetPeer(i, r) == [peers EXCEPT ![i] = r]

PeerUnchanged ==
    UNCHANGED <<row_order, prov_known, clock, field_vars, shapes_count, shapes_graph,
                graphs_list, report, pc, now, error, runs, pre, writes, prev,
                init_args>>

\* lines 601-603 of a peer: the graph list
PeerReconcile(i) ==
    /\ peers[i].pc = "reconcile"
    /\ \E glist \in get_graphs_list(store) :
         peers' = SetPeer(i, [peers[i] EXCEPT
                    !.glist = glist,
                    !.pc = IF shapes_graph_iri \in {m.iri : m \in glist}
                           THEN "add_to_label" ELSE "done"])
    /\ UNCHANGED store
    /\ PeerUnchanged

\* line 526 of a peer: add_to_label
PeerAddToLabel(i) ==
    /\ peers[i].pc = "add_to_label"
    /\ LET res == add_to_label(peers[i].graph, store, peers[i].glist)
       IN /\ store' = res.store
          /\ peers' = SetPeer(i, [peers[i] EXCEPT !.graph = res.graph,
                                                  !.pc = "insert_data"])
    /\ PeerUnchanged

\* lines 527-533 of a peer: INSERT DATA
PeerInsertData(i) ==
    /\ peers[i].pc = "insert_data"
    /\ store' = insert_data(store, shapes_graph_iri, peers[i].graph)
    /\ peers' = SetPeer(i, [peers[i] EXCEPT !.pc = "remove_modified"])
    /\ PeerUnchanged

\* lines 535-554 of a peer: its own clock's timestamp and query_remove_modified
PeerRemoveModified(i) ==
    /\ peers[i].pc = "remove_modified"
    /\ \E t \in 0..MaxTime :
         /\ store' = query_remove_modified(store, shapes_graph_iri, t)
         /\ peers' = SetPeer(i, [peers[i] EXCEPT !.now = t, !.pc = "add_modified"])
    /\ PeerUnchanged

\* lines 556-572 of a peer: query_add_modified
PeerAddModified(i) ==
    /\ peers[i].pc = "add_modified"
    /\ store' = query_add_modified(store, shapes_graph_iri, peers[i].now)
    /\ peers' = SetPeer(i, [peers[i] EXCEPT !.pc = "done"])
    /\ PeerUnchanged

\* line 607: update_execution_report
UpdateReport ==
    /\ pc = "report"
    /\ report' = shapes_count
    /\ pc' = IF plugin_provenance THEN "post_provenance"
             ELSE IF import_shapes THEN "import_shapes" ELSE "done"
    /\ UNCHANGED <<prev, init_args, store, env_vars, clock, field_vars, shapes_count, shapes_graph,
                   graphs_list, now, error, runs, pre, writes>>

\* lines 608-609: post_provenance (no update when get_provenance is None)
PostProvenance ==
    /\ pc = "post_provenance"
    /\ IF prov_known
       THEN \E token \in Tokens :
              /\ store' = insert_data(store, shapes_graph_iri, ProvenanceTriples(token))
              /\ writes' = writes \cup {"provenance"}
       ELSE UNCHANGED <<store, writes>>
    /\ pc' = IF import_shapes THEN "import_shapes" ELSE "done"
    /\ UNCHANGED <<prev, init_args, env_vars, clock, field_vars, shapes_count, shapes_graph,
                   graphs_list, report, now, error, runs, pre>>

\* lines 610-611: import_shapes_graph
ImportShapes ==
    /\ pc = "import_shapes"
    /\ store' = insert_data(store, CATALOG, {ImportTriple})
    /\ writes' = writes \cup {"import"}
    /\ pc' = "done"
    /\ UNCHANGED <<prev, init_args, env_vars, clock, field_vars, shapes_count, shapes_graph,
                   graphs_list, report, now, error, runs, pre>>

(* ------------------------- initial states, Next ----------------------- *)
RECURSIVE Perms(_)
Perms(S) ==
    IF S = {} THEN {<<>>}
    ELSE UNION {{<<x>> \o q : q \in Perms(S \ {x})} : x \in S}

Policies == {"add", "replace", "stop"}

\* the triples data graphs are drawn from
DataTriples ==
    { <<ResA, RDF_type, IriTerm(Person)>>,
      <<ResA, RDF_type, IriTerm(Org)>>,
      <<ResB, RDF_type, IriTerm(Person)>>,
      <<ResA, knows, IriTerm(ResB)>>,
      <<ResA, knows, PlainLiteral("x")>>,
      <<ResB, knowsinverse, IriTerm(ResA)>> }

\* :a a :Person ; :knows :b .  :b a :Person .
PersonsGraph ==
    { <<ResA, RDF_type, IriTerm(Person)>>,
      <<ResB, RDF_type, IriTerm(Person)>>,
      <<ResA, knows, IriTerm(ResB)>> }

\* the rows of the extraction query on PersonsGraph, as the store lists them
PersonsRows ==
    << [class |-> Person, property |-> RDF_type, data |-> "false", inverse |-> "false"],
       [class |-> Person, property |-> knows, data |-> "false", inverse |-> "false"],
       [class |-> Person, property |-> knows, data |-> "false", inverse |-> "true"] >>

\* the ignore_properties parameter: the default, two properties, one that
\* is not rdf:type
IgnoreParams == {RDF_type, RDF_type \o "\n" \o knows, knows}

\* the labels an existing shapes graph may carry
InitialLabels ==
    { LABEL_MARKER \o OTHER_DATA,
      LABEL_MARKER \o DATA,
      LABEL_MARKER \o OTHER_DATA \o ", " \o DATA,
      "My shapes",
      "My " \o LABEL_MARKER \o DATA,
      LABEL_MARKER \o "old data, " \o DATA,
      LABEL_MARKER \o OTHER_DATA \o ", old data",
      "" }

\* what an earlier run on another data graph left in the shapes graph
OldShapes ==
    { <<SHAPES, RDF_type, IriTerm(SHUI_ShapeCatalog)>>,
      <<SHAPES, DCTERMS_source, IriTerm(OTHER_DATA)>>,
      <<SHAPES \o "/old", RDF_type, IriTerm(SH_NodeShape)>>,
      <<SHAPES \o "/old", SH_property, IriTerm(SHAPES \o "/oldprop")>>,
      <<SHAPES \o "/oldprop", RDF_type, IriTerm(SH_PropertyShape)>> }

LabelTriples(labels) == {<<SHAPES, RDFS_label, PlainLiteral(l)>> : l \in labels}

Stamps(p, times) == {<<SHAPES, p, DateTime(t)>> : t \in times}

\* the shapes graph before the first run: absent ({}), or an existing graph
\* with any of the labels, or with any created and modified values, or with
\* no label and no created value, or with a language-tagged label
InitialTargets ==
    {{}}
    \cup {OldShapes \cup LabelTriples({l}) \cup Stamps(DCTERMS_created, {0}) :
            l \in InitialLabels}
    \cup {OldShapes \cup LabelTriples({LABEL_MARKER \o OTHER_DATA})
            \cup Stamps(DCTERMS_created, {0}) \cup Stamps(DCTERMS_modified, m) :
            m \in (SUBSET {0, MaxTime}) \ {{}}}
    \cup {OldShapes \cup Stamps(DCTERMS_modified, {0})}
    \cup {OldShapes \cup Stamps(DCTERMS_created, {0})
            \cup {<<SHAPES, RDFS_label, LangLiteral(LABEL_MARKER \o OTHER_DATA, "en")>>}}

NoInstance ==
    /\ data_graph_iri = ""
    /\ shapes_graph_iri = ""
    /\ ignore_properties = <<>>
    /\ existing_graph = ""
    /\ import_shapes = FALSE
    /\ prefix_cc = FALSE
    /\ replace = FALSE
    /\ plugin_provenance = FALSE
    /\ run_label = ""
    /\ shapes_count = 0
    /\ shapes_graph = {}
    /\ graphs_list = {}
    /\ pc = "none"

Init ==
    /\ \E target \in InitialTargets :
         store = [g \in GraphIris |-> IF g = DATA THEN PersonsGraph
                                      ELSE IF g = SHAPES THEN target ELSE {}]
    /\ row_order = PersonsRows
    /\ prov_known \in BOOLEAN
    /\ clock = 1
    /\ NoInstance
    /\ report = 0
    /\ now = 0
    /\ error = ""
    /\ runs = 0
    /\ pre = {}
    /\ writes = {}
    /\ prev = NoPrev
    /\ peers = NoPeers
    /\ init_args = NoArgs

Next ==
    \/ \E eg \in Policies, flag \in BOOLEAN :
         Construct(DATA, SHAPES, eg, flag, FALSE, RDF_type, flag)
    \/ Execute
    \/ CreateShapes
    \/ Reconcile
    \/ CreateGraph
    \/ AddCreated
    \/ AddToLabel
    \/ InsertData
    \/ RemoveModified
    \/ AddModified
    \/ UpdateReport
    \/ PostProvenance
    \/ ImportShapes

Spec == Init /\ [][Next]_vars

\* the synthesis alone: an execute call past the stop check, on any data
\* graph of at most MaxTriples triples, any ignore list and any row order
InitSynth ==
    /\ \E graph \in {g \in SUBSET DataTriples : Cardinality(g) <= MaxTriples} :
         /\ store = [g \in GraphIris |-> IF g = DATA THEN graph ELSE {}]
         /\ row_order \in Perms(QuerySolutions(graph, <<>>))
    /\ prov_known = FALSE
    /\ clock = 1
    /\ data_graph_iri = DATA
    /\ shapes_graph_iri = SHAPES
    /\ \E ign \in IgnoreParams : ignore_properties = Split(ign, "\n")
    /\ existing_graph = "replace"
    /\ import_shapes = FALSE
    /\ prefix_cc \in BOOLEAN
    /\ replace = TRUE
    /\ plugin_provenance = FALSE
    /\ run_label = ""
    /\ shapes_count = 0
    /\ shapes_graph = {}
    /\ graphs_list = {}
    /\ pc = "create_shapes"
    /\ report = 0
    /\ now = 0
    /\ error = ""
    /\ runs = 1
    /\ pre = {}
    /\ writes = {}
    /\ prev = NoPrev
    /\ peers = NoPeers
    /\ init_args = NoArgs

NextSynth == CreateShapes

SpecSynth == InitSynth /\ [][NextSynth]_vars

\* add runs with and without an explicit label, on the initial targets
RunLabels == {"", "New label"}

InitLabel == Init /\ prov_known = FALSE

NextLabel ==
    \/ \E label \in RunLabels :
         ConstructLabelled(DATA, SHAPES, "add", FALSE, FALSE, RDF_type, FALSE, label)
    \/ Execute
    \/ CreateShapes
    \/ Reconcile
    \/ CreateGraph
    \/ AddCreated
    \/ AddToLabelOverride
    \/ InsertData
    \/ RemoveModified
    \/ AddModified
    \/ UpdateReport

SpecLabel == InitLabel /\ [][NextLabel]_vars

\* the triples the data graphs of the name resolution runs are drawn from
NameTriples ==
    { <<ResA, RDF_type, IriTerm(Person)>>,
      <<ResA, RDF_type, IriTerm(Org)>>,
      <<ResA, RDF_type, IriTerm(Thing)>>,
      <<ResB, RDF_type, IriTerm(Person)>>,
      <<ResA, knows, IriTerm(ResB)>>,
      <<ResB, knowsinverse, IriTerm(ResA)>> }

\* create_shapes about to run on a data graph of NameTriples, with the empty
\* list of ignored properties (iris = [] of iri_list_to_filter)
InitName ==
    /\ \E graph \in {g \in SUBSET NameTriples : Cardinality(g) <= MaxTriples} :
         /\ store = [g \in GraphIris |-> IF g = DATA THEN graph ELSE {}]
         /\ row_order \in Perms(QuerySolutions(graph, <<>>))
    /\ prov_known = FALSE
    /\ clock = 1
    /\ data_graph_iri = DATA
    /\ shapes_graph_iri = SHAPES
    /\ ignore_properties = <<>>
    /\ existing_graph = "replace"
    /\ import_shapes = FALSE
    /\ prefix_cc \in BOOLEAN
    /\ replace = TRUE
    /\ plugin_provenance = FALSE
    /\ run_label = ""
    /\ shapes_count = 0
    /\ shapes_graph = {}
    /\ graphs_list = {}
    /\ pc = "create_shapes"
    /\ report = 0
    /\ now = 0
    /\ error = ""
    /\ runs = 1
    /\ pre = {}
    /\ writes = {}
    /\ prev = NoPrev
    /\ peers = NoPeers
    /\ init_args = NoArgs

NextName == CreateShapes

SpecName == InitName /\ [][NextName]_vars

\* the parameter values the constructor is called with
GraphIriParams == {DATA, SHAPES, "no iri"}

PolicyParams == {"stop", "replace", "add", "unknown"}

IgnoreListParams ==
    { "", RDF_type, RDF_type \o "\n" \o knows, "no iri",
      RDF_type \o "\n" \o "no iri" }

\* no instance yet, the shapes graph absent
InitInit == Init /\ store[SHAPES] = {} /\ prov_known = FALSE

\* one constructor call
NextInit ==
    /\ ~init_args.called
    /\ \E dg \in GraphIriParams, sg \in GraphIriParams, eg \in PolicyParams,
          ign \in IgnoreListParams, imp \in BOOLEAN, pcc \in BOOLEAN, prov \in BOOLEAN :
           Construct(dg, sg, eg, imp, pcc, ign, prov)

SpecInit == InitInit /\ [][NextInit]_vars

\* the existing target graphs of the concurrent add runs: at most one
\* modified value
RaceTargets ==
    {OldShapes \cup LabelTriples({LABEL_MARKER \o OTHER_DATA})
        \cup Stamps(DCTERMS_created, {0}) \cup Stamps(DCTERMS_modified, m) :
        m \in {{}} \cup {{t} : t \in 0..MaxTime}}

\* what create_shapes leaves in an instance run on PersonsGraph
PersonsShapes ==
    create_shapes(init_shapes_graph, 0,
                  get_class_dict(PersonsGraph, PersonsRows, <<RDF_type>>),
                  get_prefixes(FALSE, FALSE))

\* 1 + MaxPeers add runs on an existing target graph, each past create_shapes
InitRace ==
    /\ \E target \in RaceTargets :
         store = [g \in GraphIris |-> IF g = DATA THEN PersonsGraph
                                      ELSE IF g = SHAPES THEN target ELSE {}]
    /\ row_order = PersonsRows
    /\ prov_known = FALSE
    /\ clock = 0
    /\ data_graph_iri = DATA
    /\ shapes_graph_iri = SHAPES
    /\ ignore_properties = <<RDF_type>>
    /\ existing_graph = "add"
    /\ import_shapes = FALSE
    /\ prefix_cc = FALSE
    /\ replace = FALSE
    /\ plugin_provenance = FALSE
    /\ run_label = ""
    /\ shapes_count = PersonsShapes.count
    /\ shapes_graph = PersonsShapes.graph
    /\ graphs_list = {}
    /\ pc = "reconcile"
    /\ report = 0
    /\ now = 0
    /\ error = ""
    /\ runs = 1
    /\ pre = store[SHAPES]
    /\ writes = {}
    /\ prev = NoPrev
    /\ peers = [i \in 1..MaxPeers |->
                  [pc |-> "reconcile", now |-> 0, graph |-> PersonsShapes.graph,
                   glist |-> {}]]
    /\ init_args = NoArgs

NextRace ==
    \/ Reconcile
    \/ AddToLabel
    \/ InsertData
    \/ RemoveModified
    \/ AddModified
    \/ UpdateReport
    \/ \E i \in 1..MaxPeers : PeerReconcile(i)
    \/ \E i \in 1..MaxPeers : PeerAddToLabel(i)
    \/ \E i \in 1..MaxPeers : PeerInsertData(i)
    \/ \E i \in 1..MaxPeers : PeerRemoveModified(i)
    \/ \E i \in 1..MaxPeers : PeerAddModified(i)

SpecRace == InitRace /\ [][NextRace]_vars

(* ------------------------------ properties ---------------------------- *)
Target == store[SHAPES]

\* an execute call is in progress or has ended
InRun == pc \notin {"none", "ready"}

\* the target graph existed when the current execute call began
Existed == pre # {}

\* the triples post_provenance may have inserted
IsProvenance(t) ==
    \/ t[1] = SHAPES /\ t[2] = DCTERMS_creator
    \/ t[1] \in {new_plugin_iri(token) : token \in Tokens}

NotCreated(triples) == triples \ CreatedTriples(triples, SHAPES)

NotProvenance(triples) == {t \in triples : ~IsProvenance(t)}

\* C1: a run with policy stop whose target graph exists fails with the
\* "already exists" error and issues no write: no bulk write, no update, and
\* the target graph stays what it was before the run.
C1_StopOnExistingWritesNothing ==
    (InRun /\ existing_graph = "stop" /\ Existed) =>
        /\ pc = "failed"
        /\ error = "Graph already exists."
        /\ writes = {}
        /\ Target = pre

C1_Witness ==
    /\ pc = "failed"
    /\ existing_graph = "stop"
    /\ Existed
    /\ error = "Graph already exists."

\* C2: a completed replace run on an existing target graph leaves in it only
\* what the run wrote (the synthesized graph, the created timestamp and the
\* provenance), exactly one dcterms:created value and no dcterms:modified.
C2_ReplaceOverwrites ==
    (pc = "done" /\ existing_graph = "replace" /\ Existed) =>
        /\ NotProvenance(Target) =
             shapes_graph \cup {<<SHAPES, DCTERMS_created, DateTime(now)>>}
        /\ (Target \ NotProvenance(Target))
             \in {{}} \cup {ProvenanceTriples(token) : token \in Tokens}
        /\ Cardinality(CreatedTriples(Target, SHAPES)) = 1
        /\ ModifiedTriples(Target, SHAPES) = {}

C2_Witness ==
    /\ pc = "done"
    /\ existing_graph = "replace"
    /\ ModifiedTriples(pre, SHAPES) # {}
    /\ <<SHAPES \o "/old", RDF_type, IriTerm(SH_NodeShape)>> \in pre \ Target
    /\ <<SHAPES, DCTERMS_created, DateTime(0)>> \in pre \ Target

\* C3: a run with policy add on an existing target graph only inserts: every
\* triple of the graph before the run, other than the catalog's rdfs:label
\* and dcterms:modified triples, stays in it, and the catalog's dcterms:created
\* triples are the same as before.
C3_AddOnlyInserts ==
    (InRun /\ existing_graph = "add" /\ Existed) =>
        /\ \A t \in pre :
             \/ t \in Target
             \/ t[1] = SHAPES /\ t[2] \in {RDFS_label, DCTERMS_modified}
        /\ CreatedTriples(Target, SHAPES) = CreatedTriples(pre, SHAPES)

C3_Witness ==
    /\ pc = "done"
    /\ existing_graph = "add"
    /\ Existed
    /\ CreatedTriples(pre, SHAPES) # {}
    /\ \E t \in pre \ Target : t[2] = RDFS_label
    /\ \E t \in pre \ Target : t[2] = DCTERMS_modified
    /\ \E t \in Target \ pre : t[2] = RDF_type

\* the dcterms:modified triple of the current run
RunModified == <<SHAPES, DCTERMS_modified, DateTime(now)>>

\* C4 as stated: after a completed add run on an existing target graph the
\* catalog holds exactly one dcterms:modified value, the run's timestamp,
\* whatever values it held before.
C4_ModifiedIsRunTimestamp ==
    (pc = "done" /\ existing_graph = "add" /\ Existed) =>
        ModifiedTriples(Target, SHAPES) = {RunModified}

\* the prior modified values that are not older than the run's timestamp
KeptModified == {t \in ModifiedTriples(pre, SHAPES) : ~(t[3][2] < now)}

\* C4 amended: a completed add run on an existing target graph removes the
\* prior dcterms:modified values older than its timestamp; when none is left
\* the catalog holds exactly one value, the run's timestamp; otherwise it
\* holds the prior values that are not older, and the run's timestamp is not
\* added.
C4_ModifiedUnlessNewer ==
    (pc = "done" /\ existing_graph = "add" /\ Existed) =>
        ModifiedTriples(Target, SHAPES) =
            IF KeptModified = {} THEN {RunModified} ELSE KeptModified

C4_Witness ==
    /\ pc = "done"
    /\ existing_graph = "add"
    /\ ModifiedTriples(pre, SHAPES) # {}
    /\ KeptModified = {}
    /\ ModifiedTriples(Target, SHAPES) = {RunModified}
    /\ RunModified \notin pre

\* what create_shapes yields for the data graph and the instance's parameters
Synthesized ==
    create_shapes(init_shapes_graph, 0,
                  get_class_dict(store[data_graph_iri], row_order, ignore_properties),
                  get_prefixes(prefix_cc, FALSE)).graph

DefaultLabel == <<SHAPES, RDFS_label, PlainLiteral(LABEL_MARKER \o DATA)>>

\* C5: when the target graph does not exist, a completed run yields, for every
\* policy (stop and add as replace does), the synthesized graph with the
\* default label and one dcterms:created value, and no dcterms:modified.
C5_AbsentTargetAsReplace ==
    (pc = "done" /\ ~Existed) =>
        /\ NotProvenance(NotCreated(Target)) = Synthesized \cup {DefaultLabel}
        /\ CreatedTriples(Target, SHAPES) = {<<SHAPES, DCTERMS_created, DateTime(now)>>}
        /\ ModifiedTriples(Target, SHAPES) = {}

C5_Witness ==
    /\ pc = "done"
    /\ ~Existed
    /\ existing_graph = "add"
    /\ Cardinality(Target) > 4
    /\ DefaultLabel \in Target

\* the extracted schema of the current run
ClassDict == get_class_dict(store[data_graph_iri], row_order, ignore_properties)

\* its observations, each with its class
Observations ==
    {<<ClassDict[i][1], ClassDict[i][2][j]>> :
        <<i, j>> \in {<<i, j>> \in (1..Len(ClassDict)) \X (1..6) :
                        j <= Len(ClassDict[i][2])}}

\* the (property, direction) pairs of the extracted schema
ObservedPairs == {<<o[2].property, o[2].inverse>> : o \in Observations}

ClassesExhibiting(p, d) ==
    {o[1] : o \in {x \in Observations : x[2].property = p /\ x[2].inverse = d}}

Subjects(graph) == {t[1] : t \in graph}

PropertyShapes(graph) ==
    {x \in Subjects(graph) : <<x, RDF_type, IriTerm(SH_PropertyShape)>> \in graph}

\* the PropertyShape subjects of the graph with sh:path p for direction d
PropertyShapesFor(graph, p, d) ==
    {x \in PropertyShapes(graph) :
        /\ <<x, SH_path, IriTerm(p)>> \in graph
        /\ (<<x, SHUI_inversePath, BooleanTrue>> \in graph) = d}

\* the sh:property triples of the graph that point to x
LinksTo(graph, x) == {t \in graph : t[2] = SH_property /\ t[3] = IriTerm(x)}

\* C6: sharing invariant of create_shapes: for every property p and direction
\* d that n classes of the extracted schema exhibit, the synthesized graph
\* has exactly one PropertyShape with sh:path p for that direction and exactly
\* n sh:property triples pointing to it, one from the NodeShape of each class.
C6_SharedPropertyShape ==
    pc = "reconcile" =>
        \A pd \in ObservedPairs :
            /\ Cardinality(PropertyShapesFor(shapes_graph, pd[1], pd[2])) = 1
            /\ \A x \in PropertyShapesFor(shapes_graph, pd[1], pd[2]) :
                 /\ Cardinality(LinksTo(shapes_graph, x))
                      = Cardinality(ClassesExhibiting(pd[1], pd[2]))
                 /\ \A c \in ClassesExhibiting(pd[1], pd[2]) :
                      \E t \in LinksTo(shapes_graph, x) :
                        <<t[1], SH_targetClass, IriTerm(c)>> \in shapes_graph

\* C7: one PropertyShape per distinct (property, direction) pair: two
\* observations get the same property shape identifier if and only if they
\* have the same property and the same direction, so the synthesized graph
\* has as many PropertyShapes as the extracted schema has pairs.
C7_IdentifierPerPair ==
    pc = "reconcile" =>
        /\ \A o1, o2 \in Observations :
             (PropertyShapeUri(o1[2]) = PropertyShapeUri(o2[2]))
               <=> (o1[2].property = o2[2].property /\ o1[2].inverse = o2[2].inverse)
        /\ Cardinality(PropertyShapes(shapes_graph)) = Cardinality(ObservedPairs)

\* C8: a property IRI of the ignore list is never the sh:path value of a
\* triple of the synthesized graph, for the forward or the inverse direction.
C8_IgnoredNeverPath ==
    \A t \in shapes_graph :
        t[2] = SH_path => t[3][2] \notin Range(ignore_properties)

C8_Witness ==
    /\ pc = "reconcile"
    /\ knows \in Range(ignore_properties)
    /\ \E b \in ForwardBranch(store[DATA], <<>>) : b.property = knows
    /\ \E b \in InverseBranch(store[DATA], <<>>) : b.property = knows
    /\ \E t \in shapes_graph : t[2] = SH_path

\* the current execute call completed with policy replace, right after a
\* completed execute call with the same parameters
ReplacedTwice ==
    /\ pc = "done"
    /\ existing_graph = "replace"
    /\ prev = [eg |-> "replace", prov |-> plugin_provenance, imp |-> import_shapes]

PreLabels == {t[3][2] : t \in {u \in pre : u[1] = SHAPES /\ u[2] = RDFS_label}}

\* a non-empty label that does not start with the marker or lists, after the
\* marker, an entry that is no valid IRI
Malformed(l) ==
    /\ l # ""
    /\ \/ ~StartsWith(l, LABEL_MARKER)
       \/ \E x \in Range(Split(SubSeq(l, Len(LABEL_MARKER) + 1, Len(l)), ", ")) :
            ~validators_url(x)

\* C10: after a completed add run on an existing catalog whose label is
\* malformed, the old label is gone from the catalog, the old value is there
\* as the rdfs:comment "Previous label: ..." and the default label for the
\* data graph is there, for every malformed label.
C10_MalformedLabelReplaced ==
    (pc = "done" /\ existing_graph = "add" /\ Existed) =>
        \A l \in PreLabels :
            (PreLabels = {l} /\ Malformed(l)) =>
                /\ <<SHAPES, RDFS_label, PlainLiteral(l)>> \notin Target
                /\ <<SHAPES, RDFS_comment, PlainLiteral("Previous label: " \o l)>>
                     \in Target
                /\ DefaultLabel \in Target

\* the text of a label after the marker
AfterMarker(l) == SubSeq(l, Len(LABEL_MARKER) + 1, Len(l))

\* the marker followed by comma-separated valid IRIs
WellFormed(l) ==
    /\ StartsWith(l, LABEL_MARKER)
    /\ \A x \in Range(Split(AfterMarker(l), ", ")) : validators_url(x)

\* how often the label lists the graph
TimesListed(l, g) ==
    Cardinality({i \in 1..Len(Split(AfterMarker(l), ", ")) :
                    Split(AfterMarker(l), ", ")[i] = g})

\* the rdfs:label values of the catalog in a set of triples
CatalogLabels(triples) ==
    {t[3] : t \in {u \in triples : u[1] = SHAPES /\ u[2] = RDFS_label}}

\* C11: after a completed add run on an existing catalog whose one label is
\* well-formed: if the label did not list the data graph, the catalog's only
\* label is the old label with ", <data graph IRI>" appended (the old label
\* is removed); if it listed the data graph, the labels are unchanged; either
\* way the label lists the data graph exactly once, also after repeated runs.
C11_WellFormedLabelMerged ==
    (pc = "done" /\ existing_graph = "add" /\ Existed) =>
        \A l \in PreLabels :
            (Cardinality(CatalogLabels(pre)) = 1 /\ PreLabels = {l} /\ WellFormed(l)) =>
                /\ IF TimesListed(l, DATA) > 0
                   THEN CatalogLabels(Target) = CatalogLabels(pre)
                   ELSE CatalogLabels(Target) = {PlainLiteral(l \o ", " \o DATA)}
                /\ \A t \in CatalogLabels(Target) : TimesListed(t[2], DATA) = 1

ValuesOf(graph, x, p) == {t[3] : t \in {u \in graph : u[1] = x /\ u[2] = p}}

Flagged(graph, x) == <<x, SHUI_inversePath, BooleanTrue>> \in graph

\* C13: in the synthesized graph every PropertyShape has an sh:name and an
\* rdfs:label; those of a PropertyShape with the inverse-path flag begin with
\* the arrow, those of a PropertyShape without the flag do not.
C13_InverseNamesHaveArrow ==
    \A x \in PropertyShapes(shapes_graph) :
        /\ ValuesOf(shapes_graph, x, SH_name) # {}
        /\ ValuesOf(shapes_graph, x, RDFS_label) # {}
        /\ \A n \in ValuesOf(shapes_graph, x, SH_name)
                      \cup ValuesOf(shapes_graph, x, RDFS_label) :
             StartsWith(n[2], ARROW) <=> Flagged(shapes_graph, x)

C13_Witness ==
    /\ pc = "reconcile"
    /\ \E x \in PropertyShapes(shapes_graph) : Flagged(shapes_graph, x)
    /\ \E x \in PropertyShapes(shapes_graph) : ~Flagged(shapes_graph, x)

\* the candidate prefixes of the IRI's namespace
Candidates(iri, prefixes_) ==
    IF split_uri(iri) # <<>> /\ split_uri(iri)[1] \in DOMAIN prefixes_
    THEN prefixes_[split_uri(iri)[1]] ELSE <<>>

\* the candidates the title starts with
Present(iri, prefixes_) ==
    {c \in Range(Candidates(iri, prefixes_)) : StartsWith(TitleService(iri).title, c)}

\* fromIri = true, no candidate matches and the title has no underscore
NoMatchNoUnderscore(iri, prefixes_) ==
    /\ Candidates(iri, prefixes_) # <<>>
    /\ TitleService(iri).fromIri
    /\ Present(iri, prefixes_) = {}
    /\ Find(TitleService(iri).title, "_", 1) = 0

\* the name the claim gives an IRI whose namespace has candidates
ExpectedName(iri, prefixes_) ==
    LET title == TitleService(iri).title
        cands == Candidates(iri, prefixes_)
    IN IF ~TitleService(iri).fromIri THEN title \o " (" \o cands[1] \o ")"
       ELSE IF Present(iri, prefixes_) # {}
            THEN LET c == CHOOSE x \in Present(iri, prefixes_) : TRUE
                 IN SubSeq(title, Len(c) + 1, Len(title)) \o " (" \o c \o ")"
       ELSE SubSeq(title, Find(title, "_", 1) + 1, Len(title))
              \o " (" \o cands[1] \o ")"

\* the IRI a shape is named after: its target class or its path
NamedAfter(graph, x) ==
    CHOOSE i \in {t[3][2] : t \in {u \in graph : u[1] = x
                                     /\ u[2] \in {SH_targetClass, SH_path}}} : TRUE

\* the classes and properties of the extracted schema
SchemaIris == {o[1] : o \in Observations} \cup {o[2].property : o \in Observations}

\* C14: get_name as create_shapes applies it: every shape named after an
\* IRI whose namespace has candidate prefixes is named, when fromIri is true
\* and the title starts with a candidate, by the title without that candidate
\* followed by " (candidate)"; when fromIri is false, by the title followed by
\* " (first candidate)"; when no candidate matches, by the title after its
\* first underscore followed by " (first candidate)"; and the run fails with
\* an error carrying the title exactly when such a title has no underscore.
C14_NameResolution ==
    pc \in {"reconcile", "failed"} =>
        \E fetched \in (IF prefix_cc THEN BOOLEAN ELSE {FALSE}) :
            LET pf == get_prefixes(prefix_cc, fetched)
                shapes == {x \in Subjects(shapes_graph) :
                             ValuesOf(shapes_graph, x, SH_name) # {}}
            IN /\ \A x \in shapes :
                    LET iri == NamedAfter(shapes_graph, x)
                    IN Candidates(iri, pf) # <<>> =>
                         ValuesOf(shapes_graph, x, SH_name) =
                           {LangLiteral((IF Flagged(shapes_graph, x) THEN ARROW ELSE "")
                                          \o ExpectedName(iri, pf), "en")}
               /\ pc = "failed" =>
                    \E iri \in SchemaIris :
                        /\ NoMatchNoUnderscore(iri, pf)
                        /\ error = "IndexError: " \o TitleService(iri).title
               /\ pc = "reconcile" =>
                    \A iri \in SchemaIris : ~NoMatchNoUnderscore(iri, pf)

C14_Witness ==
    /\ pc = "reconcile"
    /\ \E x, y, z \in Subjects(shapes_graph) :
         /\ ValuesOf(shapes_graph, x, SH_name) = {LangLiteral("Person (ex:)", "en")}
         /\ ValuesOf(shapes_graph, y, SH_name) = {LangLiteral("Organisation (ex:)", "en")}
         /\ ValuesOf(shapes_graph, z, SH_name) = {LangLiteral("knows (exo:)", "en")}

\* :a a :Person ; :knows :b . :b a :Person .
ScenarioGraph ==
    { <<ResA, RDF_type, IriTerm(Person)>>,
      <<ResA, knows, IriTerm(ResB)>>,
      <<ResB, RDF_type, IriTerm(Person)>> }

NodeShapes(graph) == {x \in Subjects(graph) : <<x, RDF_type, IriTerm(SH_NodeShape)>> \in graph}

\* one NodeShape, targeting Person; one forward and one inverse PropertyShape
\* for knows, both of node kind IRI
ScenarioShapes ==
    /\ Cardinality(NodeShapes(shapes_graph)) = 1
    /\ \A n \in NodeShapes(shapes_graph) :
         ValuesOf(shapes_graph, n, SH_targetClass) = {IriTerm(Person)}
    /\ Cardinality(PropertyShapesFor(shapes_graph, knows, FALSE)) = 1
    /\ Cardinality(PropertyShapesFor(shapes_graph, knows, TRUE)) = 1
    /\ \A x \in PropertyShapesFor(shapes_graph, knows, FALSE) \cup PropertyShapesFor(shapes_graph, knows, TRUE) :
         ValuesOf(shapes_graph, x, SH_nodeKind) = {IriTerm(SH_IRI)}

ScenarioLinks ==
    {t \in shapes_graph : t[1] \in NodeShapes(shapes_graph) /\ t[2] = SH_property}

ScenarioRun ==
    /\ pc = "reconcile"
    /\ store[DATA] = ScenarioGraph
    /\ ignore_properties = <<>>

Rejected == init_args.called /\ error # ""

\* the last constructor call returned an instance with the parameters given
Accepted ==
    /\ init_args.called /\ error = "" /\ pc = "ready"
    /\ data_graph_iri = init_args.dg /\ shapes_graph_iri = init_args.sg

\* C16: a constructor call whose shapes graph IRI is identical to its data
\* graph IRI raises an error, as a call with an invalid data graph IRI, an
\* invalid shapes graph IRI or a policy other than add/replace/stop does, and
\* no instance with identical graph IRIs exists; the store is not touched.
C16_SameIriRejected ==
    /\ (init_args.called /\ init_args.dg = init_args.sg) => Rejected
    /\ (init_args.called /\ ~validators_url(init_args.dg)) => Rejected
    /\ (init_args.called /\ ~validators_url(init_args.sg)) => Rejected
    /\ (init_args.called /\ init_args.eg \notin {"add", "replace", "stop"}) => Rejected
    /\ pc = "ready" => shapes_graph_iri # data_graph_iri
    /\ store[SHAPES] = {}

\* the parameters of the last constructor call other than the ignore list
\* are valid
OtherwiseValid ==
    /\ init_args.called
    /\ validators_url(init_args.dg) /\ validators_url(init_args.sg)
    /\ init_args.dg # init_args.sg
    /\ init_args.eg \in {"add", "replace", "stop"}

\* C17: a constructor call with the empty ignore-list string and otherwise
\* valid parameters raises no error and gives an instance that filters no
\* property; a call with a non-empty ignore list of which some
\* newline-separated entry is not a valid IRI is rejected.
C17_EmptyIgnoreListAccepted ==
    /\ (OtherwiseValid /\ init_args.ign = "") =>
          (Accepted /\ iri_list_to_filter(ignore_properties, "property", "NOT IN") = <<>>)
    /\ (init_args.called /\ init_args.ign # ""
          /\ \E x \in Range(Split(init_args.ign, "\n")) : ~validators_url(x)) => Rejected

\* the positions of the observations in the extracted schema: class by
\* class in the order of class_dict, and within a class in list order
Positions ==
    {<<i, j>> \in (1..Len(ClassDict)) \X (1..6) : j <= Len(ClassDict[i][2])}

ObservationAt(a) == ClassDict[a[1]][2][a[2]]

Before(a, b) == a[1] < b[1] \/ (a[1] = b[1] /\ a[2] < b[2])

PositionsOf(p, d) ==
    {a \in Positions : ObservationAt(a).property = p /\ ObservationAt(a).inverse = d}

\* the first observation of (p, d) in extraction order
FirstOf(p, d) ==
    ObservationAt(CHOOSE a \in PositionsOf(p, d) :
                     \A b \in PositionsOf(p, d) : a = b \/ Before(a, b))

KindOf(obs) == IriTerm(IF obs.data THEN SH_Literal ELSE SH_IRI)

\* C18: every PropertyShape of the synthesized graph has exactly one
\* sh:nodeKind value, the kind of the first observation, in the order of the
\* extracted schema, of the shape's path and direction, whatever the
\* literal/IRI status of later observations of that pair; a PropertyShape
\* with the inverse-path flag has node kind sh:IRI.
C18_FirstNodeKindWins ==
    pc # "create_shapes" =>
        \A x \in PropertyShapes(shapes_graph) :
            /\ Cardinality(ValuesOf(shapes_graph, x, SH_nodeKind)) = 1
            /\ \A p \in ValuesOf(shapes_graph, x, SH_path) :
                 /\ PositionsOf(p[2], Flagged(shapes_graph, x)) # {}
                 /\ ValuesOf(shapes_graph, x, SH_nodeKind) =
                      {KindOf(FirstOf(p[2], Flagged(shapes_graph, x)))}
            /\ Flagged(shapes_graph, x) =>
                 ValuesOf(shapes_graph, x, SH_nodeKind) = {IriTerm(SH_IRI)}

\* a literal-valued observation comes first, an IRI-valued one of the same
\* property and direction later, and the shape is of kind Literal
C18_Witness ==
    /\ pc = "reconcile"
    /\ \E a, b \in Positions :
         /\ Before(a, b)
         /\ ObservationAt(a).property = ObservationAt(b).property
         /\ ObservationAt(a).inverse = ObservationAt(b).inverse
         /\ ObservationAt(a).data /\ ~ObservationAt(b).data
         /\ \E x \in PropertyShapesFor(shapes_graph, ObservationAt(a).property, FALSE) :
              ValuesOf(shapes_graph, x, SH_nodeKind) = {IriTerm(SH_Literal)}

\* C19: on an existing target graph that holds at most one dcterms:modified
\* value, every state reached by any interleaving of the store updates of
\* two or more add runs holds at most one dcterms:modified value.
C19_AtMostOneModified ==
    Cardinality(ModifiedTriples(store[SHAPES], SHAPES)) <= 1

\* all runs have made their two updates, with different timestamps, and
\* one value is there
C19_Witness ==
    /\ pc = "report"
    /\ \A i \in 1..MaxPeers : peers[i].pc = "done"
    /\ \E i \in 1..MaxPeers : peers[i].now # now
    /\ Cardinality(ModifiedTriples(store[SHAPES], SHAPES)) = 1

\* C20: from a target graph that is absent or holds at most one
\* dcterms:created value, every state of any sequence of completed or failed
\* runs with any mix of the policies stop, replace and add holds at most one
\* dcterms:created value in the catalog, and an add run on an existing graph
\* leaves the created values as they were when it began.
C20_AtMostOneCreated ==
    /\ Cardinality(CreatedTriples(Target, SHAPES)) <= 1
    /\ (InRun /\ existing_graph = "add" /\ Existed) =>
          CreatedTriples(Target, SHAPES) = CreatedTriples(pre, SHAPES)

\* an add run has completed its merge on a graph that the run before it
\* created, and the created value is the earlier run's
C20_Witness ==
    /\ pc = "done" /\ runs = 2
    /\ existing_graph = "add" /\ prev.eg \in {"replace", "add", "stop"}
    /\ "add_modified" \in writes
    /\ Cardinality(CreatedTriples(Target, SHAPES)) = 1
    /\ CreatedTriples(Target, SHAPES) = CreatedTriples(pre, SHAPES)

\* C21: at the end of every execute call, a second or later call on the same
\* instance included, the shape count of the execution report equals the
\* number of distinct NodeShape subjects plus the number of distinct
\* PropertyShape subjects of the shapes graph synthesized by that call.
C21_ReportCountsShapes ==
    pc = "done" =>
        report = Cardinality(NodeShapes(shapes_graph))
                   + Cardinality(PropertyShapes(shapes_graph))

====
